---- MODULE Spec2Model ----
(***************************************************************************)
(* State machine of the search widget in src/src/App.tsx: the React state  *)
(* of App, the pending debounce timers, the search and avatar requests in  *)
(* flight, and one action per event handler or promise continuation.       *)
(***************************************************************************)
EXTENDS Naturals, Sequences, FiniteSets

(* ---- bounds of the model ---- *)
MaxLen == 2
MaxSearches == 2
MaxResults == 2
MaxThumbs == 1
MaxBurst == 2

(* ---- program constants ---- *)
MinSearchLength == 2
SearchLimit == 10

(* ---- value universes ---- *)
Chars == {"a", " "}
UserIds == {1, 2}
Urls == {"u1", "u2"}
Queries == UNION {[1..n -> Chars] : n \in 0..MaxLen}
Name(i) == IF i = 1 THEN "alice" ELSE "bob"
RobloxUser == {[id |-> i, name |-> Name(i)] : i \in UserIds}
NoUser == [id |-> 0, name |-> ""]
NoError == ""
NoData == <<[id |-> 0, name |-> "absent"]>>
Distinct(d) == \A i, j \in 1..Len(d) : i # j => d[i].id # d[j].id
SearchResponse ==
    {d \in UNION {[1..n -> RobloxUser] : n \in 0..MaxResults} : Distinct(d)} \cup {NoData}
FailureKinds == {"http", "network"}

VARIABLES
    query,            \* line 26
    users,            \* line 27
    isLoading,        \* line 28
    error,            \* line 29, NoError for null
    showDropdown,     \* line 30
    selectedUser,     \* line 31, NoUser for null
    avatarUrls,       \* line 32, a function from the cached ids to their URLs
    timers,           \* pending setTimeout calls of line 108, each with the
                      \* query its searchUsers closure captured
    debounceTimeout,  \* the handle the latest run of the effect holds, line 108
    searchInFlight,   \* search fetches of line 79 awaiting their response
    avatarInFlight,   \* avatar fetches of line 48 awaiting their response
    searchCount,      \* history: number of search fetches made
    lastSearch,       \* history: the latest search fetch
    avatarCount,      \* history: number of avatar fetches made
    ev,               \* history: the handler or continuation that ran last, with
                      \* the request a response belongs to
    burstBase,        \* history: searchCount when the current run of edits began
    burstEdits,       \* history: query changes since a timer last fired (saturating)
    sinceSelect       \* history: no edit or button click since the last selection

vars == <<query, users, isLoading, error, showDropdown, selectedUser, avatarUrls,
          timers, debounceTimeout,
          searchCount, lastSearch, searchInFlight, avatarCount, avatarInFlight,
          ev, burstBase, burstEdits, sinceSelect>>

(* ---- pure helpers ---- *)
Min(a, b) == IF a < b THEN a ELSE b

EncodeChar(c) == IF c = " " THEN <<"%", "2", "0">> ELSE <<c>>

RECURSIVE encodeURIComponent(_)
encodeURIComponent(s) ==
    IF s = <<>> THEN <<>>
    ELSE EncodeChar(Head(s)) \o encodeURIComponent(Tail(s))

(* String.prototype.trim on the modelled characters *)
IsSpace(c) == c = " "

RECURSIVE TrimStart(_)
TrimStart(s) == IF s # <<>> /\ IsSpace(Head(s)) THEN TrimStart(Tail(s)) ELSE s

RECURSIVE TrimEnd(_)
TrimEnd(s) ==
    IF s # <<>> /\ IsSpace(s[Len(s)]) THEN TrimEnd(SubSeq(s, 1, Len(s) - 1)) ELSE s

Trim(s) == TrimEnd(TrimStart(s))

(* faulty variant: the keyword is built from query.trim() *)
SearchRequestTrimmed(n, q) ==
    [id |-> n, text |-> q, keyword |-> encodeURIComponent(Trim(q)), limit |-> SearchLimit]

SearchRequest(n, q) ==
    [id |-> n, text |-> q, keyword |-> encodeURIComponent(q), limit |-> SearchLimit]

NoSearch == [id |-> 0, text |-> <<>>, keyword |-> <<>>, limit |-> 0]

MapIds(d) == [i \in 1..Len(d) |-> d[i].id]

ErrorMessage(kind) ==
    IF kind = "http" THEN "HTTP error! status: 500" ELSE "Failed to fetch"

ThumbItems(ids) ==
    UNION {[1..n -> [targetId : {ids[i] : i \in 1..Len(ids)}, imageUrl : Urls]]
             : n \in 0..MaxThumbs}

RECURSIVE ReduceUrls(_, _)
ReduceUrls(acc, items) ==
    IF items = <<>> THEN acc
    ELSE LET item == Head(items)
             next == [k \in DOMAIN acc \cup {item.targetId} |->
                        IF k = item.targetId THEN item.imageUrl ELSE acc[k]]
         IN ReduceUrls(next, Tail(items))

EmptyUrls == [k \in {} |-> "u1"]

(* faulty variant: setAvatarUrls(newUrls), the previous cache is dropped *)
MergeUrlsReplace(prev, newUrls) == newUrls

MergeUrls(prev, newUrls) ==
    [k \in DOMAIN prev \cup DOMAIN newUrls |->
        IF k \in DOMAIN newUrls THEN newUrls[k] ELSE prev[k]]

(* faulty variant: the render guard without query.length > 0 *)
DropdownStateNoQueryGuard ==
    IF ~showDropdown THEN "hidden"
    ELSE IF isLoading THEN "loading"
    ELSE IF error # NoError THEN "error"
    ELSE IF Len(users) > 0 THEN "populated"
    ELSE "empty"

DropdownState ==
    IF ~(showDropdown /\ Len(query) > 0) THEN "hidden"
    ELSE IF isLoading THEN "loading"
    ELSE IF error # NoError THEN "error"
    ELSE IF Len(users) > 0 THEN "populated"
    ELSE "empty"

Event(t, u) == [type |-> t, user |-> u, req |-> 0]
ResponseEvent(t, r) == [type |-> t, user |-> NoUser, req |-> r.id]

(* ---- the effect of line 67-110: cleanup of the previous run, new timer ---- *)
Handles(ts) == {t.handle : t \in ts}
FreshHandle(ts) == CHOOSE h \in 1..(Cardinality(ts) + 1) :
                      h \notin Handles(ts) /\ \A g \in 1..(h - 1) : g \in Handles(ts)
ClearTimeout(ts, h) == {t \in ts : t.handle # h}

(* faulty variant: the effect returns no cleanup, the previous timer stays pending *)
QueryEffectNoCleanup(v) ==
    LET h == FreshHandle(timers)
    IN /\ timers' = timers \cup {[handle |-> h, query |-> v]}
       /\ debounceTimeout' = h
       /\ burstBase' = IF timers = {} THEN searchCount ELSE burstBase
       /\ burstEdits' = IF timers = {} THEN 1 ELSE Min(burstEdits + 1, MaxBurst)

QueryEffect(v) ==
    LET cleared == ClearTimeout(timers, debounceTimeout)
        h == FreshHandle(cleared)
    IN /\ timers' = cleared \cup {[handle |-> h, query |-> v]}
       /\ debounceTimeout' = h
       /\ burstBase' = IF timers = {} THEN searchCount ELSE burstBase
       /\ burstEdits' = IF timers = {} THEN 1 ELSE Min(burstEdits + 1, MaxBurst)

Init ==
    /\ query = <<>>
    /\ users = <<>>
    /\ isLoading = FALSE
    /\ error = NoError
    /\ showDropdown = FALSE
    /\ selectedUser = NoUser
    /\ avatarUrls = EmptyUrls
    /\ timers = {[handle |-> 1, query |-> <<>>]}
    /\ debounceTimeout = 1
    /\ searchCount = 0
    /\ lastSearch = NoSearch
    /\ searchInFlight = {}
    /\ avatarCount = 0
    /\ avatarInFlight = {}
    /\ ev = Event("mount", NoUser)
    /\ burstBase = 0
    /\ burstEdits = 0
    /\ sinceSelect = FALSE

(* input onChange, line 120 *)
Edit(v) ==
    /\ v # query
    /\ query' = v
    /\ QueryEffect(v)
    /\ ev' = Event("edit", NoUser)
    /\ sinceSelect' = FALSE
    /\ UNCHANGED <<users, isLoading, error, showDropdown, selectedUser, avatarUrls,
                   searchCount, lastSearch, searchInFlight, avatarCount, avatarInFlight>>

(* search button onClick, line 126 *)
SearchButton ==
    /\ showDropdown' = TRUE
    /\ ev' = Event("button", NoUser)
    /\ sinceSelect' = FALSE
    /\ UNCHANGED <<query, users, isLoading, error, selectedUser, avatarUrls,
                   timers, debounceTimeout, searchCount, lastSearch, searchInFlight,
                   avatarCount, avatarInFlight, burstBase, burstEdits>>

(* faulty variant: the outside click also clears the selection *)
handleClickOutsideDeselect ==
    /\ showDropdown' = FALSE
    /\ selectedUser' = NoUser
    /\ ev' = Event("outside", NoUser)
    /\ UNCHANGED <<query, users, isLoading, error, avatarUrls,
                   timers, debounceTimeout, searchCount, lastSearch, searchInFlight,
                   avatarCount, avatarInFlight, burstBase, burstEdits, sinceSelect>>

(* faulty variant: the outside click also abandons the requests in flight *)
handleClickOutsideAbort ==
    /\ showDropdown' = FALSE
    /\ searchInFlight' = {}
    /\ isLoading' = FALSE
    /\ ev' = Event("outside", NoUser)
    /\ UNCHANGED <<query, users, error, selectedUser, avatarUrls,
                   timers, debounceTimeout, searchCount, lastSearch,
                   avatarCount, avatarInFlight, burstBase, burstEdits, sinceSelect>>

(* document mousedown outside dropdownRef, lines 36-40 *)
handleClickOutside ==
    /\ showDropdown' = FALSE
    /\ ev' = Event("outside", NoUser)
    /\ UNCHANGED <<query, users, isLoading, error, selectedUser, avatarUrls,
                   timers, debounceTimeout, searchCount, lastSearch, searchInFlight,
                   avatarCount, avatarInFlight, burstBase, burstEdits, sinceSelect>>

(* faulty variant: handleUserClick without setQuery('') *)
handleUserClickKeepQuery(user) ==
    /\ DropdownState = "populated"
    /\ \E i \in 1..Len(users) : users[i] = user
    /\ selectedUser' = user
    /\ showDropdown' = FALSE
    /\ ev' = Event("click", user)
    /\ sinceSelect' = TRUE
    /\ UNCHANGED <<query, users, isLoading, error, avatarUrls, timers, debounceTimeout,
                   searchCount, lastSearch, searchInFlight, avatarCount, avatarInFlight,
                   burstBase, burstEdits>>

(* click on a rendered result row, lines 61-65 and 138-144 *)
handleUserClick(user) ==
    /\ DropdownState = "populated"
    /\ \E i \in 1..Len(users) : users[i] = user
    /\ selectedUser' = user
    /\ showDropdown' = FALSE
    /\ query' = <<>>
    /\ QueryEffect(<<>>)
    /\ ev' = Event("click", user)
    /\ sinceSelect' = TRUE
    /\ UNCHANGED <<users, isLoading, error, avatarUrls,
                   searchCount, lastSearch, searchInFlight, avatarCount, avatarInFlight>>

(* faulty variant: closing the modal also resets the search results *)
CloseModalResetSearch ==
    /\ selectedUser # NoUser
    /\ selectedUser' = NoUser
    /\ users' = <<>>
    /\ ev' = Event("close", NoUser)
    /\ UNCHANGED <<query, isLoading, error, showDropdown, avatarUrls,
                   timers, debounceTimeout, searchCount, lastSearch, searchInFlight,
                   avatarCount, avatarInFlight, burstBase, burstEdits, sinceSelect>>

(* Dialog.Root onOpenChange(false), line 181 *)
CloseModal ==
    /\ selectedUser # NoUser
    /\ selectedUser' = NoUser
    /\ ev' = Event("close", NoUser)
    /\ UNCHANGED <<query, users, isLoading, error, showDropdown, avatarUrls,
                   timers, debounceTimeout, searchCount, lastSearch, searchInFlight,
                   avatarCount, avatarInFlight, burstBase, burstEdits, sinceSelect>>

(* faulty variant: searchUsers without setIsLoading(true) *)
searchUsersNoLoading(t) ==
    /\ t \in timers
    /\ timers' = timers \ {t}
    /\ IF Len(t.query) < MinSearchLength
       THEN /\ users' = <<>>
            /\ error' = NoError
            /\ ev' = Event("short", NoUser)
            /\ UNCHANGED <<isLoading, searchCount, lastSearch, searchInFlight>>
       ELSE /\ searchCount < MaxSearches
            /\ error' = NoError
            /\ searchCount' = searchCount + 1
            /\ lastSearch' = SearchRequest(searchCount + 1, t.query)
            /\ searchInFlight' = searchInFlight \cup {SearchRequest(searchCount + 1, t.query)}
            /\ ev' = Event("dispatch", NoUser)
            /\ UNCHANGED <<users, isLoading>>
    /\ UNCHANGED <<query, showDropdown, selectedUser, avatarUrls, debounceTimeout,
                   avatarCount, avatarInFlight, burstBase, burstEdits, sinceSelect>>

(* faulty variant: the length guard is query.length < 1 *)
searchUsersShortGuard(t) ==
    /\ t \in timers
    /\ timers' = timers \ {t}
    /\ IF Len(t.query) < MinSearchLength - 1
       THEN /\ users' = <<>>
            /\ error' = NoError
            /\ ev' = Event("short", NoUser)
            /\ UNCHANGED <<isLoading, searchCount, lastSearch, searchInFlight>>
       ELSE /\ searchCount < MaxSearches
            /\ isLoading' = TRUE
            /\ error' = NoError
            /\ searchCount' = searchCount + 1
            /\ lastSearch' = SearchRequest(searchCount + 1, t.query)
            /\ searchInFlight' = searchInFlight \cup {SearchRequest(searchCount + 1, t.query)}
            /\ ev' = Event("dispatch", NoUser)
            /\ UNCHANGED users
    /\ UNCHANGED <<query, showDropdown, selectedUser, avatarUrls, debounceTimeout,
                   avatarCount, avatarInFlight, burstBase, burstEdits, sinceSelect>>

(* the debounce timer fires: searchUsers up to its first await, lines 68-86 *)
searchUsers(t) ==
    /\ t \in timers
    /\ timers' = timers \ {t}
    /\ IF Len(t.query) < MinSearchLength
       THEN /\ users' = <<>>
            /\ error' = NoError
            /\ ev' = Event("short", NoUser)
            /\ UNCHANGED <<isLoading, searchCount, lastSearch, searchInFlight>>
       ELSE /\ searchCount < MaxSearches
            /\ isLoading' = TRUE
            /\ error' = NoError
            /\ searchCount' = searchCount + 1
            /\ lastSearch' = SearchRequest(searchCount + 1, t.query)
            /\ searchInFlight' = searchInFlight \cup {SearchRequest(searchCount + 1, t.query)}
            /\ ev' = Event("dispatch", NoUser)
            /\ UNCHANGED users
    /\ UNCHANGED <<query, showDropdown, selectedUser, avatarUrls, debounceTimeout,
                   avatarCount, avatarInFlight, burstBase, burstEdits, sinceSelect>>

(* fetchAvatarUrls up to its await, lines 46-48 *)
fetchAvatarUrls(userIds) ==
    /\ avatarCount' = avatarCount + 1
    /\ avatarInFlight' = avatarInFlight \cup {[id |-> avatarCount + 1, userIds |-> userIds]}

(* faulty variant: the avatar fetch is guarded by data.data alone, not by its length *)
SearchSuccessAlwaysFetch(r, data) ==
    /\ r \in searchInFlight
    /\ searchInFlight' = searchInFlight \ {r}
    /\ users' = IF data = NoData THEN <<>> ELSE data
    /\ IF data # NoData
       THEN fetchAvatarUrls(MapIds(data))
       ELSE UNCHANGED <<avatarCount, avatarInFlight>>
    /\ showDropdown' = TRUE
    /\ isLoading' = FALSE
    /\ ev' = ResponseEvent("searchOk", r)
    /\ UNCHANGED <<query, error, selectedUser, avatarUrls, timers, debounceTimeout,
                   searchCount, lastSearch, burstBase, burstEdits, sinceSelect>>

(* faulty variant: a response to a request that is not the latest is dropped *)
SearchSuccessLatestOnly(r, data) ==
    /\ r \in searchInFlight
    /\ searchInFlight' = searchInFlight \ {r}
    /\ IF r.id = lastSearch.id
       THEN /\ users' = IF data = NoData THEN <<>> ELSE data
            /\ IF data # NoData /\ Len(data) > 0
               THEN fetchAvatarUrls(MapIds(data))
               ELSE UNCHANGED <<avatarCount, avatarInFlight>>
            /\ showDropdown' = TRUE
            /\ isLoading' = FALSE
       ELSE UNCHANGED <<users, avatarCount, avatarInFlight, showDropdown, isLoading>>
    /\ ev' = ResponseEvent("searchOk", r)
    /\ UNCHANGED <<query, error, selectedUser, avatarUrls, timers, debounceTimeout,
                   searchCount, lastSearch, burstBase, burstEdits, sinceSelect>>

(* the search response is ok and parses, lines 92-97 and 104 *)
SearchSuccess(r, data) ==
    /\ r \in searchInFlight
    /\ searchInFlight' = searchInFlight \ {r}
    /\ users' = IF data = NoData THEN <<>> ELSE data
    /\ IF data # NoData /\ Len(data) > 0
       THEN fetchAvatarUrls(MapIds(data))
       ELSE UNCHANGED <<avatarCount, avatarInFlight>>
    /\ showDropdown' = TRUE
    /\ isLoading' = FALSE
    /\ ev' = ResponseEvent("searchOk", r)
    /\ UNCHANGED <<query, error, selectedUser, avatarUrls, timers, debounceTimeout,
                   searchCount, lastSearch, burstBase, burstEdits, sinceSelect>>

(* faulty variant: the catch block fetches the same keyword once more *)
SearchFailureRetry(r, kind) ==
    /\ r \in searchInFlight
    /\ IF searchCount < MaxSearches
       THEN /\ searchCount' = searchCount + 1
            /\ lastSearch' = SearchRequest(searchCount + 1, r.text)
            /\ searchInFlight' =
                   (searchInFlight \ {r}) \cup {SearchRequest(searchCount + 1, r.text)}
            /\ UNCHANGED <<error, users, isLoading>>
       ELSE /\ searchInFlight' = searchInFlight \ {r}
            /\ error' = ErrorMessage(kind)
            /\ users' = <<>>
            /\ isLoading' = FALSE
            /\ UNCHANGED <<searchCount, lastSearch>>
    /\ ev' = ResponseEvent("searchFail", r)
    /\ UNCHANGED <<query, showDropdown, selectedUser, avatarUrls, timers,
                   debounceTimeout, avatarCount, avatarInFlight,
                   burstBase, burstEdits, sinceSelect>>

(* fetch rejects or the status is not 2xx, lines 88-90 and 98-104 *)
SearchFailure(r, kind) ==
    /\ r \in searchInFlight
    /\ searchInFlight' = searchInFlight \ {r}
    /\ error' = ErrorMessage(kind)
    /\ users' = <<>>
    /\ isLoading' = FALSE
    /\ ev' = ResponseEvent("searchFail", r)
    /\ UNCHANGED <<query, showDropdown, selectedUser, avatarUrls, timers,
                   debounceTimeout, searchCount, lastSearch, avatarCount, avatarInFlight,
                   burstBase, burstEdits, sinceSelect>>

(* the thumbnail response is ok, lines 50-55 *)
AvatarSuccess(a, items) ==
    /\ a \in avatarInFlight
    /\ avatarInFlight' = avatarInFlight \ {a}
    /\ avatarUrls' = MergeUrls(avatarUrls, ReduceUrls(EmptyUrls, items))
    /\ ev' = Event("avatarOk", NoUser)
    /\ UNCHANGED <<query, users, isLoading, error, showDropdown, selectedUser,
                   timers, debounceTimeout, searchCount, lastSearch, searchInFlight, avatarCount,
                   burstBase, burstEdits, sinceSelect>>

(* the thumbnail fetch rejects or is not ok, lines 49 and 56-58 *)
AvatarFailure(a) ==
    /\ a \in avatarInFlight
    /\ avatarInFlight' = avatarInFlight \ {a}
    /\ ev' = Event("avatarFail", NoUser)
    /\ UNCHANGED <<query, users, isLoading, error, showDropdown, selectedUser,
                   avatarUrls, timers, debounceTimeout, searchCount, lastSearch, searchInFlight,
                   avatarCount, burstBase, burstEdits, sinceSelect>>

Next ==
    \/ \E v \in Queries : Edit(v)
    \/ SearchButton
    \/ handleClickOutside
    \/ \E u \in RobloxUser : handleUserClick(u)
    \/ CloseModal
    \/ \E t \in timers : searchUsers(t)
    \/ \E r \in searchInFlight, d \in SearchResponse : SearchSuccess(r, d)
    \/ \E r \in searchInFlight, k \in FailureKinds : SearchFailure(r, k)
    \/ \E a \in avatarInFlight : \E items \in ThumbItems(a.userIds) :
           AvatarSuccess(a, items)
    \/ \E a \in avatarInFlight : AvatarFailure(a)

Spec == Init /\ [][Next]_vars


(***************************************************************************)
(* Properties                                                              *)
(***************************************************************************)
HasData(d) == d # NoData /\ Len(d) > 0
TargetIds(items) == {items[i].targetId : i \in 1..Len(items)}

(* C1: a burst of edits, none of which lets the debounce timer fire, issues *)
(* no search request while it lasts, and once the timer has fired with a    *)
(* final text of at least 2 characters exactly one request has been issued  *)
(* since the burst began, carrying the final query text as its keyword.     *)
DebounceOneRequest ==
    /\ timers # {} => searchCount = burstBase
    /\ (timers = {} /\ Len(query) >= MinSearchLength) =>
          /\ searchCount = burstBase + 1
          /\ lastSearch.id = searchCount
          /\ lastSearch.text = query
          /\ lastSearch.keyword = encodeURIComponent(query)

DebounceWitness ==
    /\ ev.type = "dispatch"
    /\ burstEdits >= 2
    /\ timers = {}
    /\ searchCount = burstBase + 1
    /\ lastSearch.text = query

(* C2: no search request is issued for a text shorter than 2 characters, no *)
(* avatar request is issued except after a response to a search for a text  *)
(* of at least 2 characters, and a debounced search that runs with a short  *)
(* text clears users and error and touches neither isLoading nor the        *)
(* network.                                                                 *)
ShortQueryNoNetwork ==
    [][ /\ searchCount' # searchCount =>
              /\ Len(lastSearch'.text) >= MinSearchLength
              /\ searchInFlight' = searchInFlight \cup {lastSearch'}
        /\ searchInFlight' \subseteq searchInFlight \cup {lastSearch'}
        /\ (avatarCount' # avatarCount \/ ~(avatarInFlight' \subseteq avatarInFlight)) =>
              \E r \in searchInFlight \ searchInFlight' : Len(r.text) >= MinSearchLength
        /\ \A t \in timers :
              (Len(t.query) < MinSearchLength /\ searchUsers(t)) =>
                  /\ users' = <<>>
                  /\ error' = NoError
                  /\ UNCHANGED <<isLoading, searchCount, lastSearch, searchInFlight,
                                 avatarCount, avatarInFlight>>
      ]_vars

ShortQueryWitness ==
    /\ ev.type = "short"
    /\ Len(query) = 1
    /\ showDropdown
    /\ users = <<>>
    /\ searchCount = 1
    /\ searchInFlight = {}

(* C3: when a search response arrives successfully the dropdown becomes     *)
(* populated with exactly the profiles of the response, in order, or empty  *)
(* when the response has no profiles.                                       *)
ResponseShown ==
    [][ \A r \in searchInFlight, d \in SearchResponse :
            SearchSuccess(r, d) =>
                IF HasData(d)
                THEN DropdownState' = "populated" /\ users' = d
                ELSE DropdownState' = "empty" /\ users' = <<>>
      ]_vars

(* a state of the failing input of C3: a success arrived, the text is       *)
(* non-empty and users is non-empty, yet error is still set                 *)
StaleErrorHidesResults ==
    /\ ev.type = "searchOk"
    /\ Len(query) > 0
    /\ Len(users) > 0
    /\ error # NoError
    /\ DropdownState = "error"

(* C4: when a search fails the dropdown becomes error: it is shown, users   *)
(* is empty and error is set.                                               *)
FailureShown ==
    [][ \A r \in searchInFlight, k \in FailureKinds :
            SearchFailure(r, k) =>
                /\ showDropdown'
                /\ DropdownState' = "error"
                /\ users' = <<>>
                /\ error' # NoError
      ]_vars

(* C5: a successful search response with k > 0 profiles issues exactly one  *)
(* avatar request, for the k ids of the response in order; a response       *)
(* without profiles, a failed search and every other step issue none.       *)
OneAvatarBatch ==
    [][ /\ \A r \in searchInFlight, d \in SearchResponse :
              SearchSuccess(r, d) =>
                  IF HasData(d)
                  THEN /\ avatarCount' = avatarCount + 1
                       /\ \E a \in avatarInFlight' :
                             /\ avatarInFlight' = avatarInFlight \cup {a}
                             /\ a \notin avatarInFlight
                             /\ Len(a.userIds) = Len(d)
                             /\ \A i \in 1..Len(d) : a.userIds[i] = d[i].id
                  ELSE UNCHANGED <<avatarCount, avatarInFlight>>
        /\ ev'.type # "searchOk" =>
              /\ avatarCount' = avatarCount
              /\ avatarInFlight' \subseteq avatarInFlight
      ]_vars

OneAvatarBatchWitness ==
    /\ ev.type = "searchOk"
    /\ Len(users) = 2
    /\ avatarCount = 2
    /\ \E a \in avatarInFlight : a.id = 2 /\ a.userIds = MapIds(users)

(* C6: right after a click on a result row selectedUser is the clicked      *)
(* profile, query is empty and the dropdown is hidden, and the dropdown     *)
(* stays hidden until the next edit or search-button click.                 *)
SelectionHidesDropdown ==
    /\ ev.type = "click" =>
          /\ selectedUser = ev.user
          /\ selectedUser \in RobloxUser
          /\ query = <<>>
          /\ ~showDropdown
    /\ sinceSelect => DropdownState = "hidden"

SelectionWitness ==
    /\ sinceSelect
    /\ ev.type = "searchOk"
    /\ showDropdown
    /\ selectedUser # NoUser

AvatarCacheAdditive ==
    [][ /\ DOMAIN avatarUrls \subseteq DOMAIN avatarUrls'
        /\ ev'.type = "avatarFail" => avatarUrls' = avatarUrls
        /\ \A id \in DOMAIN avatarUrls :
              avatarUrls'[id] # avatarUrls[id] =>
                  \E a \in avatarInFlight : \E items \in ThumbItems(a.userIds) :
                      AvatarSuccess(a, items) /\ id \in TargetIds(items)
      ]_vars

AvatarCacheWitness ==
    /\ ev.type = "avatarOk"
    /\ DOMAIN avatarUrls = UserIds
    /\ avatarCount = 2
    /\ avatarInFlight = {}

(* C9: whenever query has fewer than 2 characters, users is empty.          *)
ShortQueryNoResults == Len(query) < MinSearchLength => users = <<>>

(* C10 as stated: neither the stored flag nor the rendered dropdown is      *)
(* visible while query is empty.                                            *)
VisibleOnlyWithQuery ==
    /\ showDropdown => Len(query) > 0
    /\ DropdownState # "hidden" => Len(query) > 0

(* C10 amended: the rendered dropdown is visible only while query is        *)
(* non-empty, whatever the stored flag showDropdown holds.                  *)
RenderedOnlyWithQuery == DropdownState # "hidden" => Len(query) > 0

RenderedWitness ==
    /\ showDropdown
    /\ query = <<>>
    /\ DropdownState = "hidden"
    /\ ev.type = "button"

(* C11: isLoading is true exactly while a search request is in flight.      *)
LoadingIffInFlight == isLoading <=> searchInFlight # {}

(* C12: a successful response to a request older than the latest one,       *)
(* arriving after the latest one has resolved, replaces users by its own    *)
(* data and leaves lastSearch, the text of the latest request, unshown.     *)
LateResponseOverwrites ==
    [][ \A r \in searchInFlight, d \in SearchResponse :
            (SearchSuccess(r, d) /\ r.id < lastSearch.id /\ lastSearch \notin searchInFlight) =>
                /\ users' = IF d = NoData THEN <<>> ELSE d
                /\ showDropdown'
                /\ ~isLoading'
                /\ error' = error
      ]_vars

LateResponseWitness ==
    /\ ev.type = "searchOk"
    /\ ev.req = 1
    /\ lastSearch.id = 2
    /\ lastSearch.text # <<"a", "a">>
    /\ searchInFlight = {}
    /\ Len(users) > 0
    /\ error = NoError

(* C13 as stated, for the response that arrives right after the click: a   *)
(* response to a request in flight at an outside click does not make the    *)
(* dropdown visible again.                                                  *)
OutsideClickSuppresses ==
    [][ (ev.type = "outside" /\ ev'.type \in {"searchOk", "searchFail"}) =>
            DropdownState' = "hidden"
      ]_vars

(* C13 amended: an outside click hides the dropdown and cancels neither a   *)
(* request in flight nor the pending timer, and a hidden dropdown is shown  *)
(* again only by a successful search response or a search-button click,     *)
(* never by a dispatch.                                                     *)
OutsideClickHides ==
    [][ /\ ev'.type = "outside" =>
              /\ ~showDropdown'
              /\ DropdownState' = "hidden"
              /\ UNCHANGED <<searchInFlight, avatarInFlight, timers, isLoading>>
        /\ (~showDropdown /\ showDropdown') => ev'.type \in {"searchOk", "button"}
        /\ (ev.type = "outside" /\ ev'.type = "searchOk") => showDropdown'
      ]_vars

OutsideClickWitness ==
    /\ ev.type = "outside"
    /\ searchInFlight # {}
    /\ isLoading
    /\ Len(query) > 0
    /\ DropdownState = "hidden"

(* C14 as stated: right after a dispatch the dropdown is visible and shows  *)
(* loading, whatever its state before.                                      *)
DispatchShowsLoading ==
    [][ ev'.type = "dispatch" => DropdownState' = "loading" ]_vars

(* C14 amended: a dispatch sets isLoading, clears error and leaves          *)
(* showDropdown as it was: a visible dropdown shows loading, a hidden one   *)
(* stays hidden.                                                            *)
DispatchLoadsIfVisible ==
    [][ ev'.type = "dispatch" =>
            /\ isLoading'
            /\ error' = NoError
            /\ showDropdown' = showDropdown
            /\ Len(query') >= MinSearchLength
            /\ DropdownState' = IF showDropdown THEN "loading" ELSE "hidden"
      ]_vars

DispatchWitness ==
    /\ ev.type = "dispatch"
    /\ searchCount = 2
    /\ DropdownState = "loading"
    /\ Len(users) > 0

Requests == searchInFlight \cup (IF lastSearch = NoSearch THEN {} ELSE {lastSearch})

(* C15 as stated: the keyword of every search request is the trimmed text,  *)
(* URL-encoded, and the limit is 10.                                        *)
KeywordIsTrimmed ==
    \A r \in Requests :
        /\ r.keyword = encodeURIComponent(Trim(r.text))
        /\ r.limit = 10

(* C15 amended: the keyword of a search request is the query text as it is  *)
(* when the timer fires, URL-encoded with its surrounding whitespace kept,  *)
(* and the limit is 10.                                                     *)
KeywordIsQueryAsTyped ==
    [][ ev'.type = "dispatch" =>
            /\ lastSearch'.keyword = encodeURIComponent(query)
            /\ lastSearch'.limit = 10
            /\ lastSearch' \in searchInFlight'
            /\ lastSearch' \notin searchInFlight
      ]_vars

KeywordWitness ==
    /\ ev.type = "dispatch"
    /\ query = <<"a", " ">>
    /\ lastSearch.keyword = <<"a", "%", "2", "0">>
    /\ lastSearch \in searchInFlight

(* C16 as stated: after every dispatch of a search selectedUser is none.    *)
SelectionClearedBySearch ==
    [][ ev'.type = "dispatch" => selectedUser' = NoUser ]_vars

(* C16 amended: selectedUser is set by a click on a result row and cleared  *)
(* by closing the modal, and by nothing else: a debounced search, whether   *)
(* it dispatches or not, leaves it as it is.                                *)
SelectionClearedOnlyByClose ==
    [][ /\ selectedUser' # selectedUser =>
              \/ ev'.type = "click" /\ selectedUser' = ev'.user /\ selectedUser' \in RobloxUser
              \/ ev'.type = "close" /\ selectedUser' = NoUser
        /\ ev'.type \in {"dispatch", "short"} => selectedUser' = selectedUser
      ]_vars

SelectionKeptWitness ==
    /\ ev.type = "dispatch"
    /\ selectedUser # NoUser
    /\ lastSearch \in searchInFlight

NewUrls(items) == ReduceUrls(EmptyUrls, items)
MergeBoth(cache, first, second) ==
    MergeUrls(MergeUrls(cache, NewUrls(first)), NewUrls(second))
Agree(x, y) ==
    \A k \in DOMAIN NewUrls(x) \cap DOMAIN NewUrls(y) : NewUrls(x)[k] = NewUrls(y)[k]

(* C17 as stated: for any two avatar requests in flight and any successful  *)
(* responses to them, the cache after both merges does not depend on the    *)
(* order in which the responses are merged.                                 *)
AvatarMergesCommute ==
    \A a, b \in avatarInFlight :
        a # b =>
            \A x \in ThumbItems(a.userIds), y \in ThumbItems(b.userIds) :
                MergeBoth(avatarUrls, x, y) = MergeBoth(avatarUrls, y, x)

(* C17 amended: the two merges commute when the responses give the same URL *)
(* to every id they share; for an id they share, the cache ends with the    *)
(* URL of the response merged last.                                         *)
AvatarMergesCommuteIfAgree ==
    \A a, b \in avatarInFlight :
        a # b =>
            \A x \in ThumbItems(a.userIds), y \in ThumbItems(b.userIds) :
                /\ Agree(x, y) => MergeBoth(avatarUrls, x, y) = MergeBoth(avatarUrls, y, x)
                /\ \A k \in DOMAIN NewUrls(y) : MergeBoth(avatarUrls, x, y)[k] = NewUrls(y)[k]
                /\ DOMAIN MergeBoth(avatarUrls, x, y) =
                       DOMAIN avatarUrls \cup DOMAIN NewUrls(x) \cup DOMAIN NewUrls(y)

AvatarMergesWitness ==
    \E a, b \in avatarInFlight :
        /\ a # b
        /\ \E i \in 1..Len(a.userIds), j \in 1..Len(b.userIds) : a.userIds[i] = b.userIds[j]
        /\ \E i \in 1..Len(a.userIds), j \in 1..Len(b.userIds) : a.userIds[i] # b.userIds[j]

(* C18: at most one debounce timer is pending, it is the one the latest run *)
(* of the effect set and it holds the current query text; the debounced     *)
(* search runs only by consuming that timer, so the text it sends is the    *)
(* query text at the time it fires.                                         *)
OneTimerPending ==
    [][ /\ Cardinality(timers') <= 1
        /\ \A t \in timers' : t.query = query' /\ t.handle = debounceTimeout'
        /\ ev'.type \in {"dispatch", "short"} =>
              /\ \E t \in timers : timers = {t} /\ t.query = query /\ timers' = {}
              /\ query' = query
        /\ ev'.type = "dispatch" => lastSearch'.text = query
        /\ query' # query => \A t \in timers : t \notin timers' \/ t.query = query'
      ]_vars

OneTimerWitness ==
    /\ ev.type = "edit"
    /\ burstEdits >= 2
    /\ searchCount = 1
    /\ Cardinality(timers) = 1
    /\ \A t \in timers : t.query = query /\ Len(t.query) >= MinSearchLength

(* C19: a search request is issued only by a debounce timer firing, and    *)
(* that timer was set by a change of the query text since the last timer    *)
(* fired; a failure, an outside click, the search button, a selection and   *)
(* a modal close issue none, and a failure leaves the timers as they are.   *)
NoRetry ==
    [][ /\ (searchCount' # searchCount \/ ~(searchInFlight' \subseteq searchInFlight)) =>
              /\ ev'.type = "dispatch"
              /\ searchCount' = searchCount + 1
              /\ burstEdits >= 1
              /\ \E t \in timers : t \notin timers' /\ lastSearch'.text = t.query
        /\ ev'.type = "searchFail" =>
              /\ timers' = timers
              /\ searchInFlight' = searchInFlight \ {r \in searchInFlight : r.id = ev'.req}
              /\ Cardinality(searchInFlight') = Cardinality(searchInFlight) - 1
      ]_vars

NoRetryWitness ==
    /\ ev.type = "searchFail"
    /\ error # NoError
    /\ searchCount = 1
    /\ searchInFlight = {}
    /\ timers = {}
    /\ Len(query) >= MinSearchLength

(* C20: whenever error is set, users is empty.                             *)
ErrorImpliesNoResults == error # NoError => users = <<>>

TypeOK ==
    /\ query \in Queries
    /\ isLoading \in BOOLEAN
    /\ showDropdown \in BOOLEAN
    /\ selectedUser \in RobloxUser \cup {NoUser}
    /\ searchCount <= MaxSearches
====
